---- MODULE Spec2Model ----
(***************************************************************************)
(* takopi: layered configuration resolution (src/takopi/config.py).        *)
(*                                                                         *)
(* Three specifications share the variables below:                         *)
(*   Spec       the filesystem and load_telegram_config                     *)
(*   SpecMerge  _deep_merge on bounded nested documents                     *)
(*   SpecToken  get_bot_token on bounded environment values                 *)
(*                                                                         *)
(* The model is of a POSIX build (os.linesep = "\n").                       *)
(***************************************************************************)
EXTENDS Integers, Sequences, FiniteSets, TLC

VARIABLES
    home,       \* Path.home(): the home directory
    fs,         \* the filesystem: path -> node
    log,        \* one record per finished load_telegram_config call
    docA, docB, docC,   \* the operands of _deep_merge
    merged,     \* the results of the merges over docA, docB, docC
    env,        \* os.environ.get(ENV_BOT_TOKEN)
    config,     \* the resolved document handed to get_bot_token
    token       \* the outcome of get_bot_token

vars == <<home, fs, log, docA, docB, docC, merged, env, config, token>>

fsVars == <<home, fs, log>>
mergeVars == <<docA, docB, docC, merged>>
tokenVars == <<env, config, token>>

(***************************************************************************)
(* Documents.  A nested document is a function from keys to values; a      *)
(* value that is not a nested document (a string, an integer, a boolean, a *)
(* sequence) is a record whose field "scalar" names its type and whose     *)
(* field "value" holds its characters.  No document has a key named        *)
(* "scalar".                                                               *)
(***************************************************************************)
EmptyDoc == [k \in {} |-> 0]

\* a local name: K applied to the value x
Bind(x, K(_)) == K(x)

StrVal(chars) == [scalar |-> "str", value |-> chars]
IntVal(digits) == [scalar |-> "int", value |-> digits]
ListVal(items) == [scalar |-> "list", value |-> items]

\* isinstance(v, dict)
IsDict(v) == "scalar" \notin DOMAIN v

RECURSIVE _deep_merge(_, _)

\* a variant that loops over the keys of base, so that a key only override
\* has is dropped
DeepMergeBaseKeys(base, override) ==
    [key \in DOMAIN base |->
        IF key \in DOMAIN override
        THEN IF IsDict(base[key]) /\ IsDict(override[key])
             THEN _deep_merge(base[key], override[key])
             ELSE override[key]
        ELSE base[key]]

_deep_merge(base, override) ==
    [key \in (DOMAIN base) \cup (DOMAIN override) |->
        IF key \in DOMAIN override
        THEN IF /\ key \in DOMAIN base
                /\ IsDict(base[key])
                /\ IsDict(override[key])
             THEN _deep_merge(base[key], override[key])
             ELSE override[key]
        ELSE base[key]]

(***************************************************************************)
(* Paths and the filesystem.                                               *)
(***************************************************************************)
Cwd == "/w"
OtherHome == "/h"
Dirs == {Cwd, OtherHome}

LOCAL_CONFIG_NAME == ".takopi/takopi.toml"
LOCAL_CONFIG_SIMPLE == "takopi.toml"
LEGACY_LOCAL_CONFIG_NAME == ".codex/takopi.toml"
Names == {LOCAL_CONFIG_SIMPLE, LOCAL_CONFIG_NAME, LEGACY_LOCAL_CONFIG_NAME}

\* dir / name
Join(dir, name) == <<dir, name>>

Paths == {Join(d, n) : d \in Dirs, n \in Names}

HOME_CONFIG_PATH == Join(home, LOCAL_CONFIG_NAME)
LEGACY_HOME_CONFIG_PATH == Join(home, LEGACY_LOCAL_CONFIG_NAME)

\* Path(path).expanduser(): a leading "~" becomes the home directory
Expanduser(path) == IF path[1] = "~" THEN Join(home, path[2]) ELSE path

\* target_path.parent
Parent(path) == <<path[1], ".takopi">>

(***************************************************************************)
(* File contents are sequences of tokens: a token is the text of one line, *)
(* a line ending ("LF", "CRLF") or a byte that is no UTF-8 ("0xFF").       *)
(***************************************************************************)
LF == "LF"
CRLF == "CRLF"
BadByte == "0xFF"

os_linesep == LF

\* open(..., "r", encoding="utf-8", newline=None).read(): universal newlines
UniversalNewlines(data) ==
    [i \in 1..Len(data) |-> IF data[i] = CRLF THEN LF ELSE data[i]]

\* open(..., "w", encoding="utf-8", newline=None).write(): "\n" -> os.linesep
TranslateNewlines(text) ==
    [i \in 1..Len(text) |-> IF text[i] = LF THEN os_linesep ELSE text[i]]

Decodable(data) == \A i \in 1..Len(data) : data[i] # BadByte

\* the lines tomllib knows: key = value
KeyValOf ==
    [l \in {"bot_token = 'abc'", "chat_id = 111", "chat_id = 222",
            "model = 'base'", "language = 'en'"} |->
        CASE l = "bot_token = 'abc'" -> [key |-> "bot_token", val |-> StrVal(<<"a", "b", "c">>)]
          [] l = "chat_id = 111" -> [key |-> "chat_id", val |-> IntVal(<<"1", "1", "1">>)]
          [] l = "chat_id = 222" -> [key |-> "chat_id", val |-> IntVal(<<"2", "2", "2">>)]
          [] l = "model = 'base'" -> [key |-> "model", val |-> StrVal(<<"b", "a", "s", "e">>)]
          [] l = "language = 'en'" -> [key |-> "language", val |-> StrVal(<<"e", "n">>)]]

\* the lines tomllib knows: [table]
TableOf == [l \in {"[voice]"} |-> "voice"]

Root == ""

NoDoc == [some |-> FALSE, doc |-> EmptyDoc]
Some(d) == [some |-> TRUE, doc |-> d]

RECURSIVE ParseLines(_, _, _)
ParseLines(lines, doc, table) ==
    IF lines = <<>> THEN Some(doc)
    ELSE LET l == Head(lines) IN
        IF l \in DOMAIN TableOf
        THEN IF TableOf[l] \in DOMAIN doc
             THEN NoDoc
             ELSE ParseLines(Tail(lines), doc @@ (TableOf[l] :> EmptyDoc), TableOf[l])
        ELSE IF l \in DOMAIN KeyValOf
        THEN LET kv == KeyValOf[l] IN
             IF table = Root
             THEN IF kv.key \in DOMAIN doc
                  THEN NoDoc
                  ELSE ParseLines(Tail(lines), doc @@ (kv.key :> kv.val), table)
             ELSE IF kv.key \in DOMAIN doc[table]
                  THEN NoDoc
                  ELSE ParseLines(Tail(lines),
                                  [doc EXCEPT ![table] = @ @@ (kv.key :> kv.val)],
                                  table)
        ELSE NoDoc

IsEol(t) == t \in {LF, CRLF}

\* tomllib.loads(raw): NoDoc stands for TOMLDecodeError
Loads(raw) == ParseLines(SelectSeq(raw, LAMBDA t : ~IsEol(t)), EmptyDoc, Root)

(***************************************************************************)
(* Filesystem nodes.  kind is                                              *)
(*   "noparent"  nothing at the path, and its parent directory is missing  *)
(*   "blocked"   nothing at the path: its parent is a regular file         *)
(*   "absent"    nothing at the path, the parent directory exists          *)
(*   "dir"       the path exists and is not a regular file                 *)
(*   "file"      a regular file holding data; readable says whether        *)
(*               opening it for reading succeeds                           *)
(***************************************************************************)
Node(kind, data, readable) == [kind |-> kind, data |-> data, readable |-> readable]
Absent == Node("absent", <<>>, TRUE)
File(data) == Node("file", data, TRUE)

\* Path.exists()
Exists(f, p) == f[p].kind \in {"dir", "file"}

\* Path.is_file()
IsFile(f, p) == f[p].kind = "file"

\* Path.read_text(encoding="utf-8")
ReadText(f, p) ==
    CASE f[p].kind \in {"absent", "noparent"} ->
            [err |-> "FileNotFoundError", text |-> <<>>]
      [] f[p].kind \in {"dir", "blocked"} ->
            [err |-> "OSError", text |-> <<>>]
      [] f[p].kind = "file" /\ ~f[p].readable ->
            [err |-> "OSError", text |-> <<>>]
      [] f[p].kind = "file" /\ f[p].readable /\ ~Decodable(f[p].data) ->
            [err |-> "UnicodeDecodeError", text |-> <<>>]
      [] OTHER ->
            [err |-> "", text |-> UniversalNewlines(f[p].data)]

\* Path.write_text(raw, encoding="utf-8"); io = "write" is the OS refusing it
WriteText(f, p, raw, io) ==
    IF io = "write" \/ f[p].kind \in {"noparent", "blocked", "dir"}
    THEN [err |-> "OSError", fs |-> f]
    ELSE [err |-> "", fs |-> [f EXCEPT ![p] = File(TranslateNewlines(raw))]]

\* target_path.parent.mkdir(parents=True, exist_ok=True); io = "mkdir" is the
\* OS refusing to create the directory
Mkdir(f, p, io) ==
    CASE f[p].kind = "blocked" -> [err |-> "OSError", fs |-> f, made |-> <<>>]
      [] f[p].kind = "noparent" ->
            IF io = "mkdir"
            THEN [err |-> "OSError", fs |-> f, made |-> <<>>]
            ELSE [err |-> "", fs |-> [f EXCEPT ![p] = Absent], made |-> <<Parent(p)>>]
      [] OTHER -> [err |-> "", fs |-> f, made |-> <<>>]

(***************************************************************************)
(* The path catalogue.                                                     *)
(***************************************************************************)
_local_config_candidates ==
    <<Join(Cwd, LOCAL_CONFIG_SIMPLE), Join(Cwd, LOCAL_CONFIG_NAME)>>

_config_candidates ==
    LET candidates == <<Join(Cwd, LOCAL_CONFIG_NAME), HOME_CONFIG_PATH>> IN
    IF candidates[1] = candidates[2] THEN <<candidates[1]>> ELSE candidates

_legacy_candidates ==
    LET candidates == <<Join(Cwd, LEGACY_LOCAL_CONFIG_NAME), LEGACY_HOME_CONFIG_PATH>> IN
    IF candidates[1] = candidates[2] THEN <<candidates[1]>> ELSE candidates

(***************************************************************************)
(* The document loader.                                                    *)
(***************************************************************************)
\* err = "UnicodeDecodeError": the exception neither except clause catches
_try_read_config(f, cfg_path) ==
    IF ~IsFile(f, cfg_path)
    THEN [some |-> FALSE, doc |-> EmptyDoc, err |-> "", reads |-> <<>>]
    ELSE Bind(ReadText(f, cfg_path), LAMBDA r :
         IF r.err = "UnicodeDecodeError"
         THEN [some |-> FALSE, doc |-> EmptyDoc, err |-> r.err, reads |-> <<cfg_path>>]
         ELSE IF r.err # ""
         THEN [some |-> FALSE, doc |-> EmptyDoc, err |-> "", reads |-> <<cfg_path>>]
         ELSE Bind(Loads(r.text), LAMBDA d :
              [some |-> d.some, doc |-> d.doc, err |-> "", reads |-> <<cfg_path>>]))

_read_config(f, cfg_path) ==
    Bind(ReadText(f, cfg_path), LAMBDA r :
    CASE r.err = "FileNotFoundError" ->
            [err |-> "MissingRequiredFile", doc |-> EmptyDoc]
      [] r.err = "OSError" ->
            [err |-> "UnreadableFile", doc |-> EmptyDoc]
      [] r.err = "UnicodeDecodeError" ->
            [err |-> "UnicodeDecodeError", doc |-> EmptyDoc]
      [] OTHER ->
            Bind(Loads(r.text), LAMBDA d :
            IF d.some THEN [err |-> "", doc |-> d.doc]
            ELSE [err |-> "MalformedDocument", doc |-> EmptyDoc]))

(***************************************************************************)
(* The legacy migrator.                                                    *)
(***************************************************************************)
Mig(err, f, reads, writes, mkdirs) ==
    [err |-> err, fs |-> f, reads |-> reads, writes |-> writes, mkdirs |-> mkdirs]

\* a variant that writes the text back to the legacy path
CopyLegacyWrongTarget(f, legacy_path, target_path, io) ==
    Bind(Mkdir(f, target_path, io), LAMBDA m :
    IF m.err # ""
    THEN Mig("MigrationIOFailure", m.fs, <<>>, <<>>, m.made)
    ELSE Bind(ReadText(m.fs, legacy_path), LAMBDA r :
         IF r.err = "UnicodeDecodeError"
         THEN Mig("UnicodeDecodeError", m.fs, <<legacy_path>>, <<>>, m.made)
         ELSE IF r.err # ""
         THEN Mig("MigrationIOFailure", m.fs, <<legacy_path>>, <<>>, m.made)
         ELSE Bind(WriteText(m.fs, legacy_path, r.text, io), LAMBDA w :
              IF w.err # ""
              THEN Mig("MigrationIOFailure", w.fs, <<legacy_path>>, <<>>, m.made)
              ELSE Mig("", w.fs, <<legacy_path>>, <<legacy_path>>, m.made))))

\* lines 76-83: mkdir, read the legacy file, write the canonical one
CopyLegacy(f, legacy_path, target_path, io) ==
    Bind(Mkdir(f, target_path, io), LAMBDA m :
    IF m.err # ""
    THEN Mig("MigrationIOFailure", m.fs, <<>>, <<>>, m.made)
    ELSE Bind(ReadText(m.fs, legacy_path), LAMBDA r :
         IF r.err = "UnicodeDecodeError"
         THEN Mig("UnicodeDecodeError", m.fs, <<legacy_path>>, <<>>, m.made)
         ELSE IF r.err # ""
         THEN Mig("MigrationIOFailure", m.fs, <<legacy_path>>, <<>>, m.made)
         ELSE Bind(WriteText(m.fs, target_path, r.text, io), LAMBDA w :
              IF w.err # ""
              THEN Mig("MigrationIOFailure", w.fs, <<legacy_path>>, <<>>, m.made)
              ELSE Mig("", w.fs, <<legacy_path>>, <<target_path>>, m.made))))

\* a variant without the test of target_path: it copies whenever the legacy
\* file is there
MaybeMigrateLegacyOverwrite(f, legacy_path, target_path, io) ==
    IF ~IsFile(f, legacy_path)
    THEN Mig("", f, <<>>, <<>>, <<>>)
    ELSE CopyLegacy(f, legacy_path, target_path, io)

_maybe_migrate_legacy(f, legacy_path, target_path, io) ==
    IF Exists(f, target_path)
    THEN IF ~IsFile(f, target_path)
         THEN Mig("ObstructedPath", f, <<>>, <<>>, <<>>)
         ELSE Mig("", f, <<>>, <<>>, <<>>)
    ELSE IF ~IsFile(f, legacy_path)
    THEN Mig("", f, <<>>, <<>>, <<>>)
    ELSE CopyLegacy(f, legacy_path, target_path, io)

\* a variant that migrates the first pair only
MigrateFirstOnly(f, i, io) ==
    IF i > 1
    THEN Mig("", f, <<>>, <<>>, <<>>)
    ELSE _maybe_migrate_legacy(f, _legacy_candidates[1], _config_candidates[1], io)

\* for legacy, target in zip(_legacy_candidates(), _config_candidates(), strict=True)
RECURSIVE MigrateFrom(_, _, _)
MigrateFrom(f, i, io) ==
    IF i > Len(_legacy_candidates)
    THEN Mig("", f, <<>>, <<>>, <<>>)
    ELSE Bind(_maybe_migrate_legacy(f, _legacy_candidates[i], _config_candidates[i], io),
              LAMBDA m :
         IF m.err # "" THEN m
         ELSE Bind(MigrateFrom(m.fs, i + 1, io), LAMBDA rest :
              Mig(rest.err, rest.fs, m.reads \o rest.reads,
                  m.writes \o rest.writes, m.mkdirs \o rest.mkdirs)))

(***************************************************************************)
(* The resolution pipeline.                                                *)
(***************************************************************************)
\* the path argument: None, the empty string, or a path
NoPath == <<>>
EmptyStr == <<"">>

\* `if path:`
Truthy(path) == path # NoPath /\ path # EmptyStr

Outcome(status, error, doc, prov, f, reads, writes, mkdirs, migrated, branch) ==
    [status |-> status, error |-> error, doc |-> doc, prov |-> prov, fs |-> f,
     reads |-> reads, writes |-> writes, mkdirs |-> mkdirs,
     migrated |-> migrated, branch |-> branch]

Raise(f, error, reads, writes, mkdirs, migrated, branch) ==
    Outcome(IF error = "UnicodeDecodeError" THEN "UnicodeDecodeError" ELSE "ConfigError",
            error, EmptyDoc, NoPath, f, reads, writes, mkdirs, migrated, branch)

\* a variant whose global_config starts as an empty document, not None
GlobalLayerEmptyDefault(f) ==
    IF IsFile(f, HOME_CONFIG_PATH)
    THEN [branch |-> "canonical", path |-> HOME_CONFIG_PATH,
          read |-> _try_read_config(f, HOME_CONFIG_PATH)]
    ELSE IF IsFile(f, LEGACY_HOME_CONFIG_PATH)
    THEN [branch |-> "legacy", path |-> LEGACY_HOME_CONFIG_PATH,
          read |-> _try_read_config(f, LEGACY_HOME_CONFIG_PATH)]
    ELSE [branch |-> "none", path |-> NoPath,
          read |-> [some |-> TRUE, doc |-> EmptyDoc, err |-> "", reads |-> <<>>]]

\* lines 108-117: which file the global layer is read from
GlobalLayer(f) ==
    IF IsFile(f, HOME_CONFIG_PATH)
    THEN [branch |-> "canonical", path |-> HOME_CONFIG_PATH,
          read |-> _try_read_config(f, HOME_CONFIG_PATH)]
    ELSE IF IsFile(f, LEGACY_HOME_CONFIG_PATH)
    THEN [branch |-> "legacy", path |-> LEGACY_HOME_CONFIG_PATH,
          read |-> _try_read_config(f, LEGACY_HOME_CONFIG_PATH)]
    ELSE [branch |-> "none", path |-> NoPath,
          read |-> [some |-> FALSE, doc |-> EmptyDoc, err |-> "", reads |-> <<>>]]

\* lines 122-131: the first local candidate that yields a document, merged
\* over the global layer; the global layer alone when none does
RECURSIVE LocalLayer(_, _, _, _)
LocalLayer(f, i, global_config, global_path) ==
    IF i > Len(_local_config_candidates)
    THEN [err |-> "", doc |-> global_config, prov |-> global_path, reads |-> <<>>]
    ELSE Bind(_local_config_candidates[i], LAMBDA local_candidate :
         Bind(_try_read_config(f, local_candidate), LAMBDA local_config :
         IF local_config.err # ""
         THEN [err |-> local_config.err, doc |-> EmptyDoc, prov |-> NoPath,
               reads |-> local_config.reads]
         ELSE IF local_config.some
         THEN [err |-> "", doc |-> _deep_merge(global_config, local_config.doc),
               prov |-> local_candidate, reads |-> local_config.reads]
         ELSE [LocalLayer(f, i + 1, global_config, global_path)
                  EXCEPT !.reads = local_config.reads \o @]))

load_telegram_config(f, path, io) ==
    IF Truthy(path)
    THEN Bind(Expanduser(path), LAMBDA cfg_path :
         Bind(_read_config(f, cfg_path), LAMBDA r :
         IF r.err # ""
         THEN Raise(f, r.err, <<cfg_path>>, <<>>, <<>>, FALSE, "explicit")
         ELSE Outcome("Success", "", r.doc, cfg_path, f, <<cfg_path>>, <<>>, <<>>,
                      FALSE, "explicit")))
    ELSE Bind(MigrateFrom(f, 1, io), LAMBDA m :
         IF m.err # ""
         THEN Raise(m.fs, m.err, m.reads, m.writes, m.mkdirs, FALSE, "none")
         ELSE Bind(GlobalLayer(m.fs), LAMBDA g :
              Bind(m.reads \o g.read.reads, LAMBDA greads :
              IF g.read.err # ""
              THEN Raise(m.fs, g.read.err, greads, m.writes, m.mkdirs, TRUE, g.branch)
              ELSE IF ~g.read.some
              THEN Raise(m.fs, "MissingRequiredFile", greads, m.writes, m.mkdirs,
                         TRUE, g.branch)
              ELSE Bind(LocalLayer(m.fs, 1, g.read.doc, g.path), LAMBDA l :
                   IF l.err # ""
                   THEN Raise(m.fs, l.err, greads \o l.reads, m.writes, m.mkdirs,
                              TRUE, g.branch)
                   ELSE Outcome("Success", "", l.doc, l.prov, m.fs, greads \o l.reads,
                                m.writes, m.mkdirs, TRUE, g.branch)))))

(***************************************************************************)
(* The secret resolver.                                                    *)
(***************************************************************************)
Whitespace == {" ", "\t"}

\* str.strip()
RECURSIVE LStrip(_)
LStrip(chars) ==
    IF chars # <<>> /\ Head(chars) \in Whitespace THEN LStrip(Tail(chars)) ELSE chars

RECURSIVE RStrip(_)
RStrip(chars) ==
    IF chars # <<>> /\ chars[Len(chars)] \in Whitespace
    THEN RStrip(SubSeq(chars, 1, Len(chars) - 1))
    ELSE chars

Strip(chars) == RStrip(LStrip(chars))

\* os.environ.get(name): unset, or set to a string
Unset == [set |-> FALSE, value |-> <<>>]
SetTo(chars) == [set |-> TRUE, value |-> chars]

\* a variant that consults the document before the environment
GetBotTokenConfigFirst(cfg, env_token) ==
    IF /\ "bot_token" \in DOMAIN cfg
       /\ cfg["bot_token"].scalar = "str"
       /\ Strip(cfg["bot_token"].value) # <<>>
    THEN [raised |-> "", value |-> Strip(cfg["bot_token"].value)]
    ELSE IF env_token.set /\ env_token.value # <<>> /\ Strip(env_token.value) # <<>>
    THEN [raised |-> "", value |-> Strip(env_token.value)]
    ELSE [raised |-> "MissingSecret", value |-> <<>>]

get_bot_token(cfg, env_token) ==
    IF env_token.set /\ env_token.value # <<>> /\ Strip(env_token.value) # <<>>
    THEN [raised |-> "", value |-> Strip(env_token.value)]
    ELSE IF "bot_token" \notin DOMAIN cfg
    THEN [raised |-> "MissingSecret", value |-> <<>>]
    ELSE IF cfg["bot_token"].scalar # "str" \/ Strip(cfg["bot_token"].value) = <<>>
    THEN [raised |-> "InvalidSecretType", value |-> <<>>]
    ELSE [raised |-> "", value |-> Strip(cfg["bot_token"].value)]

(***************************************************************************)
(* Bounds and the values the inputs are drawn from.                        *)
(***************************************************************************)
MaxCalls == 2
MaxEnvLen == 3

TextHome ==
    <<"bot_token = 'abc'", LF, "chat_id = 111", LF, "[voice]", LF, "language = 'en'", LF>>
TextLocal ==
    <<"chat_id = 222", CRLF, "[voice]", CRLF, "model = 'base'", CRLF>>
TextJunk == <<"= =", LF>>
TextBinary == <<BadByte>>
Texts == {TextHome, TextLocal, TextJunk, TextBinary}

Files == {File(t) : t \in Texts} \cup {Node("file", TextHome, FALSE)}
SimpleNodes == Files \cup {Absent, Node("dir", <<>>, TRUE)}
CanonicalNodes ==
    SimpleNodes \cup {Node("noparent", <<>>, TRUE), Node("blocked", <<>>, TRUE)}
LegacyNodes == Files \cup {Absent}

\* the filesystems a call may start from, for a home directory h
Filesystems(h) ==
    IF h = Cwd
    THEN {[p \in Paths |->
             CASE p = Join(Cwd, LOCAL_CONFIG_SIMPLE) -> s
               [] p = Join(Cwd, LOCAL_CONFIG_NAME) -> c
               [] p = Join(Cwd, LEGACY_LOCAL_CONFIG_NAME) -> l
               [] OTHER -> Absent] :
          s \in SimpleNodes, c \in CanonicalNodes, l \in LegacyNodes}
    ELSE {[p \in Paths |->
             CASE p = Join(Cwd, LOCAL_CONFIG_SIMPLE) -> s
               [] p = Join(Cwd, LOCAL_CONFIG_NAME) -> c[1]
               [] p = Join(Cwd, LEGACY_LOCAL_CONFIG_NAME) -> l[1]
               [] p = Join(h, LOCAL_CONFIG_NAME) -> c[2]
               [] p = Join(h, LEGACY_LOCAL_CONFIG_NAME) -> l[2]
               [] OTHER -> Absent] :
          s \in SimpleNodes, c \in CanonicalNodes \X CanonicalNodes,
          l \in LegacyNodes \X LegacyNodes}

\* the path arguments tried: None, "takopi.toml" in the working directory,
\* "~/.takopi/takopi.toml"
PathArgs ==
    {NoPath, Join(Cwd, LOCAL_CONFIG_SIMPLE), Join("~", LOCAL_CONFIG_NAME)}

\* what the operating system does to a call's mkdir and write
IoFaults == {"none", "mkdir", "write"}

Chars == {" ", "\t", "x"}
Strings == UNION {[1..n -> Chars] : n \in 0..MaxEnvLen}
EnvValues == {Unset} \cup {SetTo(s) : s \in Strings}

Configs ==
    {EmptyDoc} \cup
    {("bot_token" :> v) @@ ("chat_id" :> IntVal(<<"1">>)) :
        v \in {StrVal(<<>>), StrVal(<<" ">>), StrVal(<<"a", "b", "c">>),
               StrVal(<<" ", "a", " ">>), IntVal(<<"5">>), ListVal(<<"a">>)}}

Scalars == {IntVal(<<"1">>), ListVal(<<"1", "2">>)}
DocsOver(keys, values) ==
    UNION {[ks -> values] : ks \in SUBSET keys}
InnerDocs == DocsOver({"x"}, Scalars \cup {EmptyDoc})
Docs == DocsOver({"k", "j"}, Scalars \cup InnerDocs)

(***************************************************************************)
(* Spec: the filesystem and load_telegram_config.                          *)
(***************************************************************************)
IdleMerge ==
    /\ docA = EmptyDoc /\ docB = EmptyDoc /\ docC = EmptyDoc
    /\ merged = [done |-> FALSE]

IdleToken ==
    /\ env = Unset /\ config = EmptyDoc
    /\ token = [done |-> FALSE]

IdleFs ==
    /\ home = Cwd
    /\ fs = [p \in Paths |-> Absent]
    /\ log = <<>>

Init ==
    /\ home \in Dirs
    /\ fs \in Filesystems(home)
    /\ log = <<>>
    /\ IdleMerge
    /\ IdleToken

\* one call of load_telegram_config(path)
Load(path, io) ==
    /\ Len(log) < MaxCalls
    /\ log' = Append(log, [path |-> path, pre |-> fs,
                            out |-> load_telegram_config(fs, path, io)])
    /\ fs' = log'[Len(log')].out.fs
    /\ UNCHANGED <<home, mergeVars, tokenVars>>

Next == \E path \in PathArgs, io \in IoFaults : Load(path, io)

Spec == Init /\ [][Next]_vars

(***************************************************************************)
(* SpecMerge: _deep_merge.                                                 *)
(***************************************************************************)
InitMerge ==
    /\ docA \in Docs /\ docB \in Docs /\ docC \in Docs
    /\ merged = [done |-> FALSE]
    /\ IdleFs
    /\ IdleToken

Merge ==
    /\ ~merged.done
    /\ merged' = [done |-> TRUE,
                  ab |-> _deep_merge(docA, docB),
                  ba |-> _deep_merge(docB, docA),
                  ab_c |-> _deep_merge(_deep_merge(docA, docB), docC),
                  a_bc |-> _deep_merge(docA, _deep_merge(docB, docC))]
    /\ UNCHANGED <<docA, docB, docC, fsVars, tokenVars>>

NextMerge == Merge

SpecMerge == InitMerge /\ [][NextMerge]_vars

(***************************************************************************)
(* SpecToken: get_bot_token.                                               *)
(***************************************************************************)
InitToken ==
    /\ env \in EnvValues
    /\ config \in Configs
    /\ token = [done |-> FALSE]
    /\ IdleFs
    /\ IdleMerge

GetBotToken ==
    /\ ~token.done
    /\ token' = [done |-> TRUE, out |-> get_bot_token(config, env)]
    /\ UNCHANGED <<env, config, fsVars, mergeVars>>

NextToken == GetBotToken

SpecToken == InitToken /\ [][NextToken]_vars

(***************************************************************************)
(* Vocabulary of the claims.                                               *)
(***************************************************************************)
Range(seq) == {seq[i] : i \in DOMAIN seq}

Calls == 1..Len(log)

\* a default resolution: load_telegram_config() with no explicit path
Default(i) == ~Truthy(log[i].path)

\* the (legacy, canonical) pairs of the migration
Pairs == {<<_legacy_candidates[k], _config_candidates[k]>> : k \in DOMAIN _config_candidates}

\* the document a file yields when it is a readable, well-formed regular file
Yields(f, p) ==
    IF f[p].kind = "file" /\ f[p].readable /\ Decodable(f[p].data)
    THEN Loads(UniversalNewlines(f[p].data))
    ELSE NoDoc

\* C1: a canonical path that holds a regular file when a default resolution
\* starts holds the same file, with the same content, after that call and
\* after every later call.
C1_NeverOverwrites ==
    \A i \in Calls : \A j \in Calls : \A pr \in Pairs :
        (i <= j /\ Default(i) /\ IsFile(log[i].pre, pr[2]))
            => log[j].out.fs[pr[2]] = log[i].pre[pr[2]]

\* a canonical home file and a different legacy home file, resolved twice
C1_Witness ==
    /\ Len(log) = 2 /\ Default(1) /\ Default(2)
    /\ IsFile(log[1].pre, HOME_CONFIG_PATH)
    /\ IsFile(log[1].pre, LEGACY_HOME_CONFIG_PATH)
    /\ log[1].pre[LEGACY_HOME_CONFIG_PATH].readable
    /\ log[1].pre[LEGACY_HOME_CONFIG_PATH].data # log[1].pre[HOME_CONFIG_PATH].data
    /\ log[2].out.status = "Success"

\* C2: when a default resolution has completed its migration step, the next
\* default resolution writes no file, creates no directory and leaves every
\* canonical file as the first one left it.
C2_Idempotent ==
    \A i \in Calls :
        (i + 1 \in Calls /\ Default(i) /\ log[i].out.migrated /\ Default(i + 1))
            => /\ log[i + 1].out.writes = <<>>
               /\ log[i + 1].out.mkdirs = <<>>
               /\ \A pr \in Pairs : log[i + 1].out.fs[pr[2]] = log[i].out.fs[pr[2]]

\* the first resolution created a directory and copied a file, the second ran
C2_Witness ==
    /\ Len(log) = 2 /\ Default(1) /\ Default(2)
    /\ log[1].out.migrated
    /\ log[1].out.writes # <<>>
    /\ log[1].out.mkdirs # <<>>
    /\ log[2].out.migrated

\* C10: in a default resolution that reaches the global-layer load, the
\* canonical home path is a regular file exactly when it was one at the start
\* or the legacy home path was one; the legacy-home branch is not taken; a
\* successful resolution never reports a legacy path and leaves the canonical
\* home file in place.
C10_LegacyFallbackDead ==
    \A i \in Calls :
        (Default(i) /\ log[i].out.migrated)
            => /\ IsFile(log[i].out.fs, HOME_CONFIG_PATH)
                    <=> (\/ IsFile(log[i].pre, HOME_CONFIG_PATH)
                         \/ IsFile(log[i].pre, LEGACY_HOME_CONFIG_PATH))
               /\ log[i].out.branch # "legacy"
               /\ log[i].out.status = "Success"
                    => /\ log[i].out.prov # LEGACY_HOME_CONFIG_PATH
                       /\ log[i].out.prov[2] # LEGACY_LOCAL_CONFIG_NAME
                       /\ IsFile(log[i].out.fs, HOME_CONFIG_PATH)

\* only the legacy home file existed: it was migrated and the canonical one loaded
C10_Witness ==
    \E i \in Calls :
        /\ Default(i) /\ log[i].out.status = "Success"
        /\ home # Cwd
        /\ ~Exists(log[i].pre, HOME_CONFIG_PATH)
        /\ IsFile(log[i].pre, LEGACY_HOME_CONFIG_PATH)
        /\ log[i].out.branch = "canonical"
        /\ log[i].out.prov = HOME_CONFIG_PATH

\* C3: when a default resolution starts with a legacy file present and its
\* canonical path absent, and the migration step completes, the canonical
\* path then holds a regular file with exactly the legacy file's content, the
\* legacy file is as it was, and a document resolved from the canonical home
\* file is the one that content parses to.
C3_CopiesVerbatim ==
    \A i \in Calls : \A pr \in Pairs :
        (/\ Default(i)
         /\ log[i].out.migrated
         /\ IsFile(log[i].pre, pr[1])
         /\ ~Exists(log[i].pre, pr[2]))
            => /\ IsFile(log[i].out.fs, pr[2])
               /\ log[i].out.fs[pr[2]].data = log[i].pre[pr[1]].data
               /\ log[i].out.fs[pr[1]] = log[i].pre[pr[1]]
               /\ (/\ log[i].out.status = "Success"
                   /\ log[i].out.prov = HOME_CONFIG_PATH
                   /\ pr[2] = HOME_CONFIG_PATH)
                    => log[i].out.doc = Loads(log[i].pre[pr[1]].data).doc

\* the same with the content compared after universal-newline translation;
\* it holds, which leaves the translation as the only difference
C3_CopiesUpToNewlines ==
    \A i \in Calls : \A pr \in Pairs :
        (/\ Default(i)
         /\ log[i].out.migrated
         /\ IsFile(log[i].pre, pr[1])
         /\ ~Exists(log[i].pre, pr[2]))
            => /\ IsFile(log[i].out.fs, pr[2])
               /\ log[i].out.fs[pr[2]].data = UniversalNewlines(log[i].pre[pr[1]].data)
               /\ log[i].out.fs[pr[1]] = log[i].pre[pr[1]]
               /\ (/\ log[i].out.status = "Success"
                   /\ log[i].out.prov = HOME_CONFIG_PATH
                   /\ pr[2] = HOME_CONFIG_PATH)
                    => log[i].out.doc = Loads(log[i].pre[pr[1]].data).doc

\* a home or legacy-home file was present, was read and parsed to a document
GlobalLoaded(i) ==
    \E p \in {HOME_CONFIG_PATH, LEGACY_HOME_CONFIG_PATH} :
        /\ p \in Range(log[i].out.reads)
        /\ Yields(log[i].out.fs, p).some

\* C4 as stated: every call that ends in Success, with or without an explicit
\* path, has loaded a home/global document.
C4_SuccessHasGlobal ==
    \A i \in Calls : log[i].out.status = "Success" => GlobalLoaded(i)

\* C4 amended: every default resolution that ends in Success has loaded a
\* home/global document.
C4_DefaultSuccessHasGlobal ==
    \A i \in Calls :
        (Default(i) /\ log[i].out.status = "Success") => GlobalLoaded(i)

\* a default resolution that succeeded with the local layer absent
C4_Witness ==
    \E i \in Calls :
        /\ Default(i) /\ log[i].out.status = "Success"
        /\ log[i].out.prov = HOME_CONFIG_PATH
        /\ home # Cwd
        /\ ~IsFile(log[i].pre, Join(Cwd, LOCAL_CONFIG_SIMPLE))

\* C5: in a default resolution that reaches the global-layer load, a
\* malformed canonical home file fails with MalformedDocument, an unreadable
\* one with UnreadableFile, and MissingRequiredFile is raised only when no
\* file exists at the canonical nor at the legacy home path.
C5_RequiredGlobalLoad ==
    \A i \in Calls :
        (Default(i) /\ log[i].out.migrated)
            => LET f == log[i].out.fs
                   h == f[HOME_CONFIG_PATH] IN
               /\ (h.kind = "file" /\ h.readable /\ Decodable(h.data)
                        /\ ~Loads(h.data).some)
                    => log[i].out.error = "MalformedDocument"
               /\ (h.kind = "file" /\ ~h.readable)
                    => log[i].out.error = "UnreadableFile"
               /\ log[i].out.error = "MissingRequiredFile"
                    => (~IsFile(f, HOME_CONFIG_PATH) /\ ~IsFile(f, LEGACY_HOME_CONFIG_PATH))

\* the first local candidate that yields a document, if any
FirstLocal(f) ==
    IF Yields(f, _local_config_candidates[1]).some THEN 1
    ELSE IF Yields(f, _local_config_candidates[2]).some THEN 2
    ELSE 0

\* C6: in a default resolution that has loaded the global layer, the first
\* local candidate that yields a document is merged over the global document
\* and gives the provenance; candidates that are absent, unreadable or
\* malformed count as not present; with no such candidate the result is the
\* global document and its path.
C6_LocalLayer ==
    \A i \in Calls :
        LET f == log[i].out.fs
            g == Yields(f, HOME_CONFIG_PATH)
            k == FirstLocal(f) IN
        (Default(i) /\ log[i].out.migrated /\ g.some)
            => /\ log[i].out.status = "Success"
               /\ k # 0 => /\ log[i].out.prov = _local_config_candidates[k]
                           /\ log[i].out.doc =
                                _deep_merge(g.doc, Yields(f, _local_config_candidates[k]).doc)
               /\ k = 0 => /\ log[i].out.prov = HOME_CONFIG_PATH
                           /\ log[i].out.doc = g.doc

\* the same where every local candidate that is a readable regular file
\* decodes as UTF-8; it holds, which leaves the undecodable file as the only
\* difference
C6_LocalLayerDecodable ==
    \A i \in Calls :
        LET f == log[i].out.fs
            g == Yields(f, HOME_CONFIG_PATH)
            k == FirstLocal(f) IN
        (/\ Default(i) /\ log[i].out.migrated /\ g.some
         /\ \A c \in Range(_local_config_candidates) :
                (f[c].kind = "file" /\ f[c].readable) => Decodable(f[c].data))
            => /\ log[i].out.status = "Success"
               /\ k # 0 => /\ log[i].out.prov = _local_config_candidates[k]
                           /\ log[i].out.doc =
                                _deep_merge(g.doc, Yields(f, _local_config_candidates[k]).doc)
               /\ k = 0 => /\ log[i].out.prov = HOME_CONFIG_PATH
                           /\ log[i].out.doc = g.doc

\* C9: no path is read more than once in one resolution call.
C9_ReadAtMostOnce ==
    \A i \in Calls :
        \A m \in DOMAIN log[i].out.reads : \A n \in DOMAIN log[i].out.reads :
            log[i].out.reads[m] = log[i].out.reads[n] => m = n

\* the same when the home directory is not the working directory; it holds
C9_ReadAtMostOnceApart ==
    home # Cwd =>
        \A i \in Calls :
            \A m \in DOMAIN log[i].out.reads : \A n \in DOMAIN log[i].out.reads :
                log[i].out.reads[m] = log[i].out.reads[n] => m = n

\* v is s without its leading and trailing whitespace
IsTrimOf(v, s) ==
    \E i \in 0..Len(s) : \E j \in 0..Len(s) :
        /\ i + j <= Len(s)
        /\ v = SubSeq(s, i + 1, Len(s) - j)
        /\ \A n \in 1..i : s[n] \in Whitespace
        /\ \A n \in (Len(s) - j + 1)..Len(s) : s[n] \in Whitespace
        /\ v # <<>> => (v[1] \notin Whitespace /\ v[Len(v)] \notin Whitespace)

\* C7 as stated: for every non-empty value of TAKOPI_BOT_TOKEN, get_bot_token
\* does not raise and returns that value.
C7_EnvPrecedence ==
    (token.done /\ env.set /\ env.value # <<>>)
        => (token.out.raised = "" /\ token.out.value = env.value)

\* C7 amended: for every value of TAKOPI_BOT_TOKEN that holds a character
\* other than whitespace, get_bot_token does not raise and returns that value
\* without its leading and trailing whitespace, whatever the document holds.
C7_EnvPrecedenceTrimmed ==
    (token.done /\ env.set /\ \E n \in DOMAIN env.value : env.value[n] \notin Whitespace)
        => (token.out.raised = "" /\ IsTrimOf(token.out.value, env.value))

\* a padded environment value beats a valid bot_token of the document
C7_Witness ==
    /\ token.done
    /\ env = SetTo(<<" ", "x", "\t">>)
    /\ "bot_token" \in DOMAIN config
    /\ config["bot_token"] = StrVal(<<"a", "b", "c">>)
    /\ token.out.value = <<"x">>

\* B holds a value that is no document at a key path where A and C both hold
\* nested documents
RECURSIVE Clash(_, _, _)
Clash(a, b, c) ==
    \E k \in (DOMAIN a) \cap (DOMAIN b) \cap (DOMAIN c) :
        /\ IsDict(a[k])
        /\ IsDict(c[k])
        /\ (~IsDict(b[k]) \/ Clash(a[k], b[k], c[k]))

\* C8 as stated: merging A, B, C left to right equals merging A with the
\* merge of B and C, for all nested documents.
C8_Associative ==
    merged.done => merged.ab_c = merged.a_bc

\* C8 amended: the two groupings agree whenever B holds no non-document value
\* at a key path where A and C both hold nested documents.
C8_AssociativeNoClash ==
    (merged.done /\ ~Clash(docA, docB, docC)) => merged.ab_c = merged.a_bc

\* three documents nested at the same key, merged both ways; the merge of the
\* first two depends on their order
C8_Witness ==
    /\ merged.done
    /\ ~Clash(docA, docB, docC)
    /\ \E k \in (DOMAIN docA) \cap (DOMAIN docB) \cap (DOMAIN docC) :
        /\ IsDict(docA[k]) /\ IsDict(docB[k]) /\ IsDict(docC[k])
        /\ docA[k] # docB[k] /\ docB[k] # docC[k]
    /\ merged.ab # merged.ba
    /\ merged.ab_c = merged.a_bc

====
